---- MODULE Spec2Model ----
(***************************************************************************)
(* Model of the compliance core of the APRA compliance-monitoring backend: *)
(*   TransactionService.create_transaction  (validate, insert, evaluate)   *)
(*   ComplianceService.evaluate_transaction (context, rules, persist, flag)*)
(*   ComplianceService.resolve_violation                                   *)
(* over one relational store shared by request-scoped sessions.            *)
(*                                                                         *)
(* Time is counted in hours.  Risk scores are Python floats; they are kept *)
(* here as exact fixed-point numbers, RiskScale units to 1.0.              *)
(***************************************************************************)
EXTENDS Integers, Sequences, FiniteSets, TLC

\* ------------------------------------------------------------------ bounds
MaxTxns     == 1   \* transactions inserted
MaxViols    == 1   \* a stored transaction is evaluated again only while no more violations are stored
MaxResolved == 1   \* violations that get resolved (each any number of times)
MaxTicks    == 1   \* clock advances
MaxConcurrent == 2 \* transactions inserted by the concurrent sessions

Procs     == {1, 2}            \* request sessions
TickSteps == {2}               \* hours the clock may advance in one step

\* ------------------------------------------------------- program constants
limit_amount              == 10000
max_transactions_per_hour == 10
max_amount_per_hour       == 50000
high_risk_countries       == {"AFG", "IRN", "IRQ", "PRK", "SYR", "YEM"}
valid_types               == {"DEBIT", "CREDIT", "TRANSFER"}
Rules                     == <<"APRA-TXN-LIMIT-001", "APRA-VELOCITY-001", "APRA-GEO-001">>
RuleIds                   == {Rules[i] : i \in 1..Len(Rules)}

\* fixed-point unit of a risk score: amount/limit, count/max_count and
\* total/max_amount are all whole multiples of 1/max_amount_per_hour
RiskScale == max_amount_per_hour

None == -1         \* a NULL column / Python None in a timestamp or id slot
NoStr == "<null>"  \* a NULL string column

\* n / d as a risk score: exact, since d divides RiskScale
Ratio(n, d) == n * (RiskScale \div d)

Max2(a, b) == IF a >= b THEN a ELSE b
Min2(a, b) == IF a <= b THEN a ELSE b

\* ------------------------------------------------------------------ inputs
\* A request field: absent from the dict, present with None, or a value.
Absent      == [kind |-> "missing"]
Null        == [kind |-> "null"]
StrVal(s)   == [kind |-> "str", str |-> s]
NumVal(n)   == [kind |-> "num", num |-> n]
\* a currency value is kept as its sequence of characters (len() is applied)
CodeVal(cs) == [kind |-> "code", code |-> cs]

\* A well-formed request, and the requests that differ from it in the fields
\* the rules read.
BaseData == [account_id |-> StrVal("ACC1"), amount |-> NumVal(5000),
             transaction_type |-> StrVal("DEBIT"), currency |-> Absent,
             location_country |-> Absent]

GoodData ==
    {[BaseData EXCEPT !.amount = m, !.location_country = c] :
        m \in {NumVal(5000), NumVal(30000)}, c \in {Absent, StrVal("IRN")}}
    \cup {[BaseData EXCEPT !.account_id = StrVal("ACC2"), !.amount = NumVal(30000),
                           !.currency = CodeVal(<<"A", "U", "D">>),
                           !.transaction_type = StrVal("TRANSFER")]}

\* Requests with one field (or two) out of order.
BadData ==
    {[BaseData EXCEPT !.account_id = x] : x \in {Absent, Null}}
    \cup {[BaseData EXCEPT !.amount = x] :
             x \in {Absent, Null, StrVal("abc"), NumVal(0), NumVal(-5000)}}
    \cup {[BaseData EXCEPT !.transaction_type = x] :
             x \in {Absent, Null, StrVal("REFUND")}}
    \cup {[BaseData EXCEPT !.currency = x] :
             x \in {Null, CodeVal(<<"A", "U">>), CodeVal(<<"A", "U", "D", "X">>)}}
    \cup {[BaseData EXCEPT !.amount = NumVal(0), !.currency = Null],
          [BaseData EXCEPT !.transaction_type = StrVal("REFUND"),
                           !.currency = CodeVal(<<"A", "U">>)],
          [BaseData EXCEPT !.amount = NumVal(30000), !.location_country = StrVal("IRN"),
                           !.currency = CodeVal(<<"A", "U">>)]}

TransactionData == GoodData \cup BadData

VARIABLES
    txns,     \* table transactions: the committed rows, by id
    viols,    \* table compliance_violations: the committed rows
    patterns, \* table transaction_patterns: the committed rows
    now,      \* the clock (datetime.utcnow()), in hours
    ticks,    \* how often the clock has advanced
    sess,     \* the request sessions
    obs       \* what the last read of the store returned

vars == <<txns, viols, patterns, now, ticks, sess, obs>>

\* ------------------------------------------------------------- store rows
\* A row of table transactions, and the ORM object a session holds for it.
NewTransaction(data, ts) ==
    [id                    |-> None,
     account_id            |-> data.account_id.str,
     amount                |-> data.amount.num,
     location_country      |-> IF data.location_country.kind = "missing"
                               THEN "AUS" ELSE data.location_country.str,
     transaction_timestamp |-> ts,
     is_flagged            |-> FALSE,
     risk_score            |-> 0,
     compliance_status     |-> "PENDING"]

NoTx == [id |-> None, account_id |-> NoStr, amount |-> 0, location_country |-> NoStr,
         transaction_timestamp |-> None, is_flagged |-> FALSE, risk_score |-> 0,
         compliance_status |-> NoStr]

\* A ComplianceViolation as a rule allocates it (not yet inserted).
Violation(rule, sev, risk, data) ==
    [rule |-> rule, severity |-> sev, risk_score |-> risk, transaction_id |-> None,
     violation_data |-> data]

NoViolation == [rule |-> NoStr, severity |-> NoStr, risk_score |-> 0, transaction_id |-> None,
                violation_data |-> [none |-> TRUE]]

\* The row an INSERT of violation v makes: column defaults fill the rest.
ViolationRow(v, vid, at) ==
    [violation_id     |-> vid,
     rule             |-> v.rule,
     severity         |-> v.severity,
     risk_score       |-> v.risk_score,
     transaction_id   |-> v.transaction_id,
     violation_data   |-> v.violation_data,
     status           |-> "OPEN",
     assigned_to      |-> NoStr,
     resolution_notes |-> NoStr,
     detected_at      |-> at,
     resolved_at      |-> None]

\* ------------------------------------------------------------- validation
\* TransactionService._validate_transaction_data: "" when the data pass,
\* otherwise the name of the exception raised.
RequiredMissing(data) ==
    \/ data.account_id.kind \in {"missing", "null"}
    \/ data.amount.kind \in {"missing", "null"}
    \/ data.transaction_type.kind \in {"missing", "null"}

\* as AmountInvalid, with `< 0` for `<= 0`
AmountInvalid_negative(data) ==
    \/ data.amount.kind # "num"
    \/ data.amount.num < 0

AmountInvalid(data) ==
    \/ data.amount.kind # "num"
    \/ data.amount.num <= 0

TypeInvalid(data) ==
    \/ data.transaction_type.kind # "str"
    \/ data.transaction_type.str \notin valid_types

_validate_transaction_data(data) ==
    IF RequiredMissing(data) THEN "DataQualityViolation"
    ELSE IF AmountInvalid(data) THEN "DataQualityViolation"
    ELSE IF TypeInvalid(data) THEN "DataQualityViolation"
    ELSE IF data.currency.kind = "missing" THEN ""
    ELSE IF data.currency.kind = "null" THEN "TypeError"     \* len(None)
    ELSE IF Len(data.currency.code) # 3 THEN "DataQualityViolation"
    ELSE ""

\* ------------------------------------------------------------------ rules
RECURSIVE SumAmounts(_)
SumAmounts(ts) == IF ts = <<>> THEN 0 ELSE Head(ts).amount + SumAmounts(Tail(ts))

\* as _build_evaluation_context, over a snapshot that holds no row but the
\* transaction's own
_build_evaluation_context_own_only(t, store, at) ==
    [recent_transactions |-> SelectSeq(store, LAMBDA r : r.id = t.id),
     account_id           |-> t.account_id,
     evaluation_timestamp |-> at]

\* ComplianceService._build_evaluation_context: the account's committed rows
\* of the last 24 hours, as the session's query sees the store at time `at`.
_build_evaluation_context(t, store, at) ==
    [recent_transactions |->
         SelectSeq(store, LAMBDA r : /\ r.account_id = t.account_id
                                     /\ r.transaction_timestamp >= at - 24),
     account_id           |-> t.account_id,
     evaluation_timestamp |-> at]

\* as APRATransactionLimitRule_evaluate, with `>=` for `>`
APRATransactionLimitRule_evaluate_inclusive(t, context, at) ==
    IF t.amount >= limit_amount
    THEN Violation("APRA-TXN-LIMIT-001", "HIGH",
                   Min2(Ratio(t.amount, limit_amount), 10 * RiskScale),
                   [transaction_amount |-> t.amount,
                    limit_amount       |-> limit_amount,
                    excess_amount      |-> t.amount - limit_amount])
    ELSE NoViolation

APRATransactionLimitRule_evaluate(t, context, at) ==
    IF t.amount > limit_amount
    THEN Violation("APRA-TXN-LIMIT-001", "HIGH",
                   Min2(Ratio(t.amount, limit_amount), 10 * RiskScale),
                   [transaction_amount |-> t.amount,
                    limit_amount       |-> limit_amount,
                    excess_amount      |-> t.amount - limit_amount])
    ELSE NoViolation

\* as recent_hour_transactions, without the comparison of account_id
recent_hour_transactions_any_account(t, context, at) ==
    SelectSeq(context.recent_transactions,
              LAMBDA r : r.transaction_timestamp >= at - 1)

recent_hour_transactions(t, context, at) ==
    SelectSeq(context.recent_transactions,
              LAMBDA r : /\ r.transaction_timestamp >= at - 1
                         /\ r.account_id = t.account_id)

transaction_count(t, context, at) == Len(recent_hour_transactions(t, context, at)) + 1

total_amount(t, context, at) == SumAmounts(recent_hour_transactions(t, context, at)) + t.amount

\* as APRAVelocityRule_evaluate, with CRITICAL from twice the maximum on
APRAVelocityRule_evaluate_early_critical(t, context, at) ==
    LET count == transaction_count(t, context, at)
        total == total_amount(t, context, at)
    IN  IF count > max_transactions_per_hour \/ total > max_amount_per_hour
        THEN Violation("APRA-VELOCITY-001",
                       IF count >= max_transactions_per_hour * 2 THEN "CRITICAL" ELSE "HIGH",
                       Max2(Ratio(count, max_transactions_per_hour),
                            Ratio(total, max_amount_per_hour)),
                       [transaction_count |-> count,
                        max_transactions  |-> max_transactions_per_hour,
                        total_amount      |-> total,
                        max_amount        |-> max_amount_per_hour,
                        time_window_hours |-> 1,
                        account_id        |-> t.account_id])
        ELSE NoViolation

APRAVelocityRule_evaluate(t, context, at) ==
    LET count == transaction_count(t, context, at)
        total == total_amount(t, context, at)
    IN  IF count > max_transactions_per_hour \/ total > max_amount_per_hour
        THEN Violation("APRA-VELOCITY-001",
                       IF count > max_transactions_per_hour * 2 THEN "CRITICAL" ELSE "HIGH",
                       Max2(Ratio(count, max_transactions_per_hour),
                            Ratio(total, max_amount_per_hour)),
                       [transaction_count |-> count,
                        max_transactions  |-> max_transactions_per_hour,
                        total_amount      |-> total,
                        max_amount        |-> max_amount_per_hour,
                        time_window_hours |-> 1,
                        account_id        |-> t.account_id])
        ELSE NoViolation

\* as APRAGeographicRule_evaluate, for amounts above the limit only
APRAGeographicRule_evaluate_large_only(t, context, at) ==
    IF t.location_country \in high_risk_countries /\ t.amount > limit_amount
    THEN Violation("APRA-GEO-001", "CRITICAL", 8 * RiskScale,
                   [country_code                    |-> t.location_country,
                    risk_category                   |-> "HIGH_RISK_COUNTRY",
                    transaction_amount              |-> t.amount,
                    requires_enhanced_due_diligence |-> TRUE])
    ELSE NoViolation

APRAGeographicRule_evaluate(t, context, at) ==
    IF t.location_country \in high_risk_countries
    THEN Violation("APRA-GEO-001", "CRITICAL", 8 * RiskScale,
                   [country_code                    |-> t.location_country,
                    risk_category                   |-> "HIGH_RISK_COUNTRY",
                    transaction_amount              |-> t.amount,
                    requires_enhanced_due_diligence |-> TRUE])
    ELSE NoViolation

\* rule.evaluate(transaction, context), dispatched on the rule object
evaluate(rule, t, context, at) ==
    CASE rule = "APRA-TXN-LIMIT-001" -> APRATransactionLimitRule_evaluate(t, context, at)
      [] rule = "APRA-VELOCITY-001"  -> APRAVelocityRule_evaluate(t, context, at)
      [] rule = "APRA-GEO-001"       -> APRAGeographicRule_evaluate(t, context, at)

\* as RuleLoop, with the try block around the whole loop: the first rule that
\* raises ends it
RECURSIVE RuleLoop_break(_, _, _, _, _)
RuleLoop_break(i, t, context, at, failing) ==
    IF i > Len(Rules) THEN [violations |-> <<>>, ran |-> {}]
    ELSE IF Rules[i] \in failing THEN [violations |-> <<>>, ran |-> {Rules[i]}]
    ELSE LET rest == RuleLoop_break(i + 1, t, context, at, failing)
             v    == evaluate(Rules[i], t, context, at)
         IN  IF v = NoViolation
             THEN [violations |-> rest.violations, ran |-> {Rules[i]} \cup rest.ran]
             ELSE [violations |-> <<[v EXCEPT !.transaction_id = t.id]>> \o rest.violations,
                   ran        |-> {Rules[i]} \cup rest.ran]

\* as RuleLoop, without the assignment of line 293
RECURSIVE RuleLoop_unlinked(_, _, _, _, _)
RuleLoop_unlinked(i, t, context, at, failing) ==
    IF i > Len(Rules) THEN [violations |-> <<>>, ran |-> {}]
    ELSE LET rest == RuleLoop_unlinked(i + 1, t, context, at, failing)
             v    == evaluate(Rules[i], t, context, at)
         IN  IF Rules[i] \in failing \/ v = NoViolation
             THEN [violations |-> rest.violations, ran |-> {Rules[i]} \cup rest.ran]
             ELSE [violations |-> <<v>> \o rest.violations,
                   ran        |-> {Rules[i]} \cup rest.ran]

\* The rule loop of evaluate_transaction from rule i on: a rule in `failing`
\* raises inside the try block and is logged and skipped; a violation gets the
\* transaction's id and is appended.  The result carries the violations
\* collected and the rules whose evaluate was called.
RECURSIVE RuleLoop(_, _, _, _, _)
RuleLoop(i, t, context, at, failing) ==
    IF i > Len(Rules) THEN [violations |-> <<>>, ran |-> {}]
    ELSE LET rest == RuleLoop(i + 1, t, context, at, failing)
             v    == evaluate(Rules[i], t, context, at)
         IN  IF Rules[i] \in failing \/ v = NoViolation
             THEN [violations |-> rest.violations, ran |-> {Rules[i]} \cup rest.ran]
             ELSE [violations |-> <<[v EXCEPT !.transaction_id = t.id]>> \o rest.violations,
                   ran        |-> {Rules[i]} \cup rest.ran]

\* as MaxRisk, taking the first violation's score
MaxRisk_first(vs) == vs[1].risk_score

\* max(v.risk_score for v in violations), violations non-empty
RECURSIVE MaxRisk(_)
MaxRisk(vs) == IF Len(vs) = 1 THEN vs[1].risk_score
               ELSE Max2(vs[1].risk_score, MaxRisk(Tail(vs)))

\* --------------------------------------------------------------- sessions
\* the rules whose evaluate raises in one evaluation: none, or one of them
FailingSets == {{}} \cup {{r} : r \in RuleIds}

Notes == {"false positive", "customer verified"}
Users == {"officer@bank.com"}

NoData == [account_id |-> Absent, amount |-> Absent, transaction_type |-> Absent,
           currency |-> Absent, location_country |-> Absent]

NoArg == [violation_id |-> None, resolution_notes |-> NoStr, resolved_by |-> NoStr]

\* What one request-scoped session holds: the operation it runs and where it
\* stands in it (pc), the arguments, the ORM transaction object, the ids of
\* the context's recent_transactions (seen), the list
\* `violations`, the list `patterns` (found), the rules called and the rules
\* that raised (the error log),
\* the number of commit() calls, the severity filter of a query, and how the
\* call ended.
IdleSession ==
    [pc |-> "idle", op |-> "none", data |-> NoData, arg |-> NoArg, tx |-> NoTx,
     seen |-> {}, violations |-> <<>>, found |-> <<>>, ran |-> {}, raised |-> {},
     commits |-> 0, severity |-> NoStr, result |-> "none"]

CanStart(p) == sess[p].pc \in {"idle", "returned", "raised"}

Init ==
    /\ txns = <<>>
    /\ viols = <<>>
    /\ now = 0
    /\ ticks = 0
    /\ sess = [p \in Procs |-> IdleSession]
    /\ obs = <<>>
    /\ patterns = <<>>

\* ---------------------------------------------------- create_transaction
\* Lines 35-58: validate, build the Transaction, add, commit, refresh.
\* `ok` is whether the storage layer accepts the commit.
create_transaction(p, data, ok) ==
    /\ CanStart(p)
    /\ LET err  == _validate_transaction_data(data)
           call == [IdleSession EXCEPT !.op = "create_transaction", !.data = data]
           row  == [NewTransaction(data, now) EXCEPT !.id = Len(txns) + 1]
       IN  IF err # ""
           THEN /\ sess' = [sess EXCEPT ![p] = [call EXCEPT !.pc = "raised", !.result = err]]
                /\ UNCHANGED txns
           ELSE IF ok
           THEN /\ txns' = Append(txns, row)
                /\ sess' = [sess EXCEPT ![p] =
                               [call EXCEPT !.pc = "created", !.tx = row, !.commits = 1]]
           ELSE /\ sess' = [sess EXCEPT ![p] =
                               [call EXCEPT !.pc = "raised", !.commits = 1,
                                            !.result = "PersistenceError"]]
                /\ UNCHANGED txns
    /\ UNCHANGED <<viols, now, ticks, obs, patterns>>

\* -------------------------------------------------- evaluate_transaction
\* as AfterRules, without the `if violations:` guard
AfterRules_unguarded(violations) == "evaluated"

\* Where the call stands after the rule loop and the add() loop: the commits
\* follow only `if violations:`, otherwise the list is returned at once.
AfterRules(violations) == IF violations # <<>> THEN "evaluated" ELSE "returned"

\* Lines 283-314 for transaction object tx in session record call: build the
\* context from the committed store, run the rules, add the violations.
RunRules(call, tx, failing) ==
    LET context == _build_evaluation_context(tx, txns, now)
        loop    == RuleLoop(1, tx, context, now, failing)
    IN  [call EXCEPT !.tx = tx,
                     !.seen = {context.recent_transactions[i].id :
                                  i \in 1..Len(context.recent_transactions)},
                     !.violations = loop.violations,
                     !.ran = loop.ran,
                     !.raised = loop.ran \cap failing,
                     !.pc = AfterRules(loop.violations),
                     !.result = IF AfterRules(loop.violations) = "returned"
                                THEN "ok" ELSE "none"]

\* evaluate_transaction as create_transaction calls it (line 69), on the
\* transaction the session has just committed and refreshed.
evaluate_created(p, failing) ==
    /\ sess[p].pc = "created"
    /\ sess' = [sess EXCEPT ![p] = RunRules(sess[p], sess[p].tx, failing)]
    /\ UNCHANGED <<txns, viols, now, ticks, obs, patterns>>

\* evaluate_transaction called on its own, on a stored transaction the
\* session has loaded.
evaluate_transaction(p, tid, failing) ==
    /\ CanStart(p)
    /\ tid \in 1..Len(txns)
    /\ sess' = [sess EXCEPT ![p] =
                   RunRules([IdleSession EXCEPT !.op = "evaluate_transaction"],
                            txns[tid], failing)]
    /\ UNCHANGED <<txns, viols, now, ticks, obs, patterns>>

\* as InsertViolations, the new rows taking the place of the rows stored
InsertViolations_replacing(store, vs, at) ==
    [i \in 1..Len(vs) |-> ViolationRow(vs[i], i, at)]

\* as InsertViolations, writing every pending violation twice
InsertViolations_twice(store, vs, at) ==
    store \o [i \in 1..(2 * Len(vs)) |->
                 ViolationRow(vs[((i - 1) % Len(vs)) + 1], Len(store) + i, at)]

\* INSERT of the pending violations, in the order they were added.
InsertViolations(store, vs, at) ==
    store \o [i \in 1..Len(vs) |-> ViolationRow(vs[i], Len(store) + i, at)]

\* Line 317: the first commit, which writes the added violations.
commit_violations(p, ok) ==
    /\ sess[p].pc = "evaluated"
    /\ IF ok
       THEN /\ viols' = InsertViolations(viols, sess[p].violations, now)
            /\ sess' = [sess EXCEPT ![p].pc = "persisted",
                                    ![p].commits = sess[p].commits + 1]
       ELSE /\ sess' = [sess EXCEPT ![p].pc = "raised",
                                    ![p].commits = sess[p].commits + 1,
                                    ![p].result = "PersistenceError"]
            /\ UNCHANGED viols
    /\ UNCHANGED <<txns, now, ticks, obs, patterns>>

\* Lines 320-322: the risk aggregation on the transaction object.
Flag(tx, violations) ==
    [tx EXCEPT !.is_flagged = TRUE,
               !.compliance_status = "UNDER_REVIEW",
               !.risk_score = MaxRisk(violations)]

\* as UpdateComplianceFields, writing the columns on every row of the account
UpdateComplianceFields_of_account(store, tx) ==
    [i \in 1..Len(store) |->
        IF store[i].account_id = tx.account_id
        THEN [store[i] EXCEPT !.is_flagged = tx.is_flagged,
                              !.compliance_status = tx.compliance_status,
                              !.risk_score = tx.risk_score]
        ELSE store[i]]

\* UPDATE of the three compliance columns of the object's row.
UpdateComplianceFields(store, tx) ==
    [store EXCEPT ![tx.id].is_flagged = tx.is_flagged,
                  ![tx.id].compliance_status = tx.compliance_status,
                  ![tx.id].risk_score = tx.risk_score]

\* Lines 320-325: flag the object, commit a second time, return.
update_transaction(p, ok) ==
    /\ sess[p].pc = "persisted"
    /\ LET tx == Flag(sess[p].tx, sess[p].violations)
       IN  IF ok
           THEN /\ txns' = UpdateComplianceFields(txns, tx)
                /\ sess' = [sess EXCEPT ![p].tx = tx, ![p].pc = "returned",
                                        ![p].commits = sess[p].commits + 1,
                                        ![p].result = "ok"]
           ELSE /\ sess' = [sess EXCEPT ![p].tx = tx, ![p].pc = "raised",
                                        ![p].commits = sess[p].commits + 1,
                                        ![p].result = "PersistenceError"]
                /\ UNCHANGED txns
    /\ UNCHANGED <<viols, now, ticks, obs, patterns>>

\* ----------------------------------------------------- resolve_violation
\* as FindViolation, without the filter on violation_id
FindViolation_unfiltered(store, violation_id) ==
    IF store # <<>> THEN 1 ELSE None

\* query(ComplianceViolation).filter(violation_id == id).first(): the row's
\* position in the table, or None.
FindViolation(store, violation_id) ==
    IF \E i \in 1..Len(store) : store[i].violation_id = violation_id
    THEN CHOOSE i \in 1..Len(store) : store[i].violation_id = violation_id
    ELSE None

\* as Resolve, without the assignment of assigned_to
Resolve_unassigned(v, resolution_notes, resolved_by, at) ==
    [v EXCEPT !.status = "RESOLVED",
              !.resolved_at = at,
              !.resolution_notes = resolution_notes]

\* as Resolve, without the assignment of resolved_at
Resolve_undated(v, resolution_notes, resolved_by, at) ==
    [v EXCEPT !.status = "RESOLVED",
              !.resolution_notes = resolution_notes,
              !.assigned_to = resolved_by]

\* Lines 362-365: the assignments on the violation found.
Resolve(v, resolution_notes, resolved_by, at) ==
    [v EXCEPT !.status = "RESOLVED",
              !.resolved_at = at,
              !.resolution_notes = resolution_notes,
              !.assigned_to = resolved_by]

ResolvedCount == Cardinality({i \in 1..Len(viols) : viols[i].status = "RESOLVED"})

\* at most MaxResolved violations get resolved
CanResolve(violation_id) ==
    LET i == FindViolation(viols, violation_id)
    IN  i # None => (viols[i].status = "RESOLVED" \/ ResolvedCount < MaxResolved)

resolve_violation(p, violation_id, resolution_notes, resolved_by, ok) ==
    /\ CanStart(p)
    /\ LET i    == FindViolation(viols, violation_id)
           call == [IdleSession EXCEPT
                       !.op = "resolve_violation",
                       !.arg = [violation_id |-> violation_id,
                                resolution_notes |-> resolution_notes,
                                resolved_by |-> resolved_by]]
       IN  IF i = None
           THEN /\ sess' = [sess EXCEPT ![p] =
                               [call EXCEPT !.pc = "returned", !.result = "False"]]
                /\ UNCHANGED viols
           ELSE IF ok
           THEN /\ viols' = [viols EXCEPT ![i] =
                                Resolve(viols[i], resolution_notes, resolved_by, now)]
                /\ sess' = [sess EXCEPT ![p] =
                               [call EXCEPT !.pc = "returned", !.commits = 1,
                                            !.result = "True"]]
           ELSE /\ sess' = [sess EXCEPT ![p] =
                               [call EXCEPT !.pc = "raised", !.commits = 1,
                                            !.result = "PersistenceError"]]
                /\ UNCHANGED viols
    /\ UNCHANGED <<txns, now, ticks, obs, patterns>>

\* ------------------------------------------------------------------ clock
Tick(d) ==
    /\ now' = now + d
    /\ ticks' = ticks + 1
    /\ UNCHANGED <<txns, viols, sess, obs, patterns>>

\* ------------------------------------------------------------------ reads
\* A query session reading the store in one snapshot: every transaction with
\* its compliance columns and the number of violations linked to it.
Snapshot ==
    [t \in 1..Len(txns) |->
        [is_flagged        |-> txns[t].is_flagged,
         compliance_status |-> txns[t].compliance_status,
         violations        |-> Cardinality({i \in 1..Len(viols) :
                                               viols[i].transaction_id = t})]]

read_store ==
    /\ obs' = Snapshot
    /\ UNCHANGED <<txns, viols, now, ticks, sess, patterns>>

\* ------------------------------------------------------- specifications
Idle == \A p \in Procs : CanStart(p)

\* The clock advances between requests.
Advance == \E d \in TickSteps : ticks < MaxTicks /\ Idle /\ Tick(d)

\* Ingestion, one request at a time: create_transaction on every input, with
\* rules that raise and commits that fail, and evaluate_transaction on stored
\* transactions.
Next ==
    \/ \E data \in TransactionData, ok \in BOOLEAN :
           Len(txns) < MaxTxns /\ create_transaction(1, data, ok)
    \/ \E failing \in FailingSets : evaluate_created(1, failing)
    \/ \E tid \in 1..MaxTxns, failing \in FailingSets :
           Len(viols) <= MaxViols /\ evaluate_transaction(1, tid, failing)
    \/ \E ok \in BOOLEAN : commit_violations(1, ok)
    \/ \E ok \in BOOLEAN : update_transaction(1, ok)
    \/ Advance

Spec == Init /\ [][Next]_vars

\* The violation lifecycle, one request at a time: transactions are ingested
\* over a storage layer that works and rules that do not raise, and their
\* violations are resolved, on every input of resolve_violation.
LifecycleNext ==
    \/ \E data \in GoodData :
           Len(txns) < MaxTxns /\ create_transaction(1, data, TRUE)
    \/ evaluate_created(1, {})
    \/ commit_violations(1, TRUE)
    \/ update_transaction(1, TRUE)
    \/ \E vid \in 1..(Len(viols) + 1), n \in Notes, u \in Users, ok \in BOOLEAN :
           CanResolve(vid) /\ resolve_violation(1, vid, n, u, ok)
    \/ Advance

LifecycleSpec == Init /\ [][LifecycleNext]_vars

\* Two sessions ingesting at once while a third reads the store.
ConcurrentNext ==
    \/ \E p \in Procs, data \in GoodData, ok \in BOOLEAN :
           Len(txns) < MaxConcurrent /\ create_transaction(p, data, ok)
    \/ \E p \in Procs : evaluate_created(p, {})
    \/ \E p \in Procs, ok \in BOOLEAN : commit_violations(p, ok)
    \/ \E p \in Procs, ok \in BOOLEAN : update_transaction(p, ok)
    \/ read_store

ConcurrentSpec == Init /\ [][ConcurrentNext]_vars

\* The lifecycle over a store that already holds violations when the service
\* starts: rows in each status the status column documents (line 47), which
\* the queries of the service filter on, with no transaction attached.
Statuses == {"OPEN", "INVESTIGATING", "RESOLVED", "CLOSED"}

StoredViolation(vid, status) ==
    [ViolationRow(Violation("APRA-GEO-001", "CRITICAL", 8 * RiskScale,
                            [risk_category |-> "HIGH_RISK_COUNTRY"]), vid, 0)
        EXCEPT !.status = status,
               !.resolved_at = IF status \in {"RESOLVED", "CLOSED"} THEN 0 ELSE None]

StoredInit ==
    /\ txns = <<>>
    /\ \E s1, s2 \in Statuses : viols = <<StoredViolation(1, s1), StoredViolation(2, s2)>>
    /\ now = 0
    /\ ticks = 0
    /\ sess = [p \in Procs |-> IdleSession]
    /\ obs = <<>>
    /\ patterns = <<>>

StoredNext ==
    \/ \E vid \in 1..(Len(viols) + 1), n \in Notes, u \in Users, ok \in BOOLEAN :
           CanResolve(vid) /\ resolve_violation(1, vid, n, u, ok)
    \/ Advance

StoredSpec == StoredInit /\ [][StoredNext]_vars

\* ------------------------------------------------ the rules on their own
\* rule.evaluate(transaction, context) called directly, as the unit tests of
\* the rules do, with a context the caller has put together: table txns holds
\* the context's recent_transactions.
MaxMatching == 21   \* context transactions of the account within the hour

ContextAmounts == {100, 5000, 12000}
OtherRows      == {0, 11}     \* how many rows of another account / older rows

ContextRow(account, amount, ts) ==
    NewTransaction([BaseData EXCEPT !.account_id = StrVal(account),
                                    !.amount = NumVal(amount)], ts)

\* n rows of ACC1 stamped within the hour before hour 2, then rows of ACC2,
\* rows of ACC1 stamped two hours back, and rows stamped ahead of the clock.
Context(n, amount, others, old, ahead) ==
    [i \in 1..n |-> ContextRow("ACC1", amount, 1 + (i % 2))]
    \o [i \in 1..others |-> ContextRow("ACC2", 40000, 2)]
    \o [i \in 1..old |-> ContextRow("ACC1", 40000, 0)]
    \o [i \in 1..ahead |-> ContextRow("ACC1", amount, 3)]

Contexts ==
    {Context(n, a, o, d, h) : n \in 0..MaxMatching, a \in ContextAmounts,
                              o \in OtherRows, d \in OtherRows, h \in {0, 1}}

\* the transactions a rule is called on
EvaluatedTransactions ==
    {[ContextRow("ACC1", a, 2) EXCEPT !.location_country = c] :
        a \in {5000, 10000, 10001, 100000, 150000}, c \in {"AUS", "IRN"}}
    \cup {[ContextRow("ACC1", 5000, 2) EXCEPT !.location_country = c] :
             c \in high_risk_countries \cup {"NZL", "IRL"}}

RuleInit ==
    /\ txns \in Contexts
    /\ viols = <<>>
    /\ now = 2
    /\ ticks = 0
    /\ sess = [p \in Procs |-> IdleSession]
    /\ obs = <<>>
    /\ patterns = <<>>

\* One call of rule.evaluate; None is the empty list, a violation a list of one.
rule_evaluate(p, rule, t) ==
    /\ CanStart(p)
    /\ LET context == [recent_transactions |-> txns]
           v       == evaluate(rule, t, context, now)
       IN  sess' = [sess EXCEPT ![p] =
                       [IdleSession EXCEPT
                           !.op = "rule.evaluate",
                           !.tx = t,
                           !.ran = {rule},
                           !.violations = IF v = NoViolation THEN <<>> ELSE <<v>>,
                           !.pc = "returned",
                           !.result = "ok"]]
    /\ UNCHANGED <<txns, viols, now, ticks, obs, patterns>>

\* each run is one call on one context
RuleNext ==
    \E rule \in RuleIds, t \in EvaluatedTransactions :
        sess[1].pc = "idle" /\ rule_evaluate(1, rule, t)

RuleSpec == RuleInit /\ [][RuleNext]_vars

\* ------------------------------------------------------ pattern detection
query_limit == 100   \* get_transactions_by_account(limit=100)

\* confidence scores are kept in tenths
ConfidenceScale == 10

\* order_by(desc(Transaction.transaction_timestamp))
order_by_desc(rows) ==
    SortSeq(rows, LAMBDA a, b : a.transaction_timestamp > b.transaction_timestamp)

\* TransactionService.get_transactions_by_account(account_id, limit,
\* start_date): the account's rows from start_date on, newest first, the first
\* `limit` of them.
get_transactions_by_account(store, account_id, start_date, limit) ==
    LET rows == order_by_desc(SelectSeq(store, LAMBDA r : /\ r.account_id = account_id
                                                          /\ r.transaction_timestamp >= start_date))
    IN  SubSeq(rows, 1, Min2(Len(rows), limit))

\* A TransactionPattern as a detector allocates it.
TransactionPattern(account_id, pattern_type, confidence, count, window) ==
    [account_id |-> account_id, pattern_type |-> pattern_type,
     confidence_score |-> confidence, frequency_count |-> count,
     time_window_hours |-> window]

NoPattern == TransactionPattern(NoStr, NoStr, 0, 0, 0)

\* max(hourly_counts.values()): the largest number of transactions that share
\* one calendar hour (timestamps are whole hours), 0 for no transactions
max_hourly_count(transactions) ==
    LET hours == {transactions[i].transaction_timestamp : i \in 1..Len(transactions)}
        count(h) == Cardinality({i \in 1..Len(transactions) :
                                    transactions[i].transaction_timestamp = h})
    IN  IF hours = {} THEN 0
        ELSE CHOOSE c \in {count(h) : h \in hours} : \A h \in hours : count(h) <= c

_detect_velocity_pattern(transactions) ==
    LET n == max_hourly_count(transactions)
    IN  IF n > 5
        THEN TransactionPattern(transactions[1].account_id, "VELOCITY",
                                Min2(n, ConfidenceScale), n, 1)
        ELSE NoPattern

near_threshold_transactions(transactions) ==
    SelectSeq(transactions, LAMBDA t : 9000 <= t.amount /\ t.amount < 10000)

\* as _detect_amount_pattern, from four transactions on
_detect_amount_pattern_from_four(transactions) ==
    LET n == Len(near_threshold_transactions(transactions))
    IN  IF n >= 4
        THEN TransactionPattern(transactions[1].account_id, "AMOUNT",
                                Min2(2 * n, ConfidenceScale), n, 24)
        ELSE NoPattern

_detect_amount_pattern(transactions) ==
    LET n == Len(near_threshold_transactions(transactions))
    IN  IF n >= 3
        THEN TransactionPattern(transactions[1].account_id, "AMOUNT",
                                Min2(2 * n, ConfidenceScale), n, 24)
        ELSE NoPattern

\* transaction_timestamp.hour
hour(ts) == ts % 24

unusual_time_transactions(transactions) ==
    SelectSeq(transactions, LAMBDA t : \/ hour(t.transaction_timestamp) >= 22
                                       \/ hour(t.transaction_timestamp) <= 6)

_detect_time_pattern(transactions) ==
    LET n == Len(unusual_time_transactions(transactions))
    IN  IF n >= 3
        THEN TransactionPattern(transactions[1].account_id, "TEMPORAL",
                                Min2(n, ConfidenceScale), n, 24)
        ELSE NoPattern

\* as DetectedPatterns, without the minimum of five transactions
DetectedPatterns_no_minimum(recent_transactions) ==
    IF recent_transactions = <<>> THEN <<>>
    ELSE SelectSeq(<<_detect_velocity_pattern(recent_transactions),
                     _detect_amount_pattern(recent_transactions),
                     _detect_time_pattern(recent_transactions)>>,
                   LAMBDA x : x # NoPattern)

\* Lines 222-238: the list `patterns` for the transactions fetched.
DetectedPatterns(recent_transactions) ==
    IF Len(recent_transactions) < 5 THEN <<>>
    ELSE SelectSeq(<<_detect_velocity_pattern(recent_transactions),
                     _detect_amount_pattern(recent_transactions),
                     _detect_time_pattern(recent_transactions)>>,
                   LAMBDA x : x # NoPattern)

\* Lines 214-238 and 253: fetch, detect, and return at once when the list is
\* empty.
detect_suspicious_patterns(p, account_id) ==
    /\ CanStart(p)
    /\ LET recent_transactions ==
               get_transactions_by_account(txns, account_id, now - 720, query_limit)
           found == DetectedPatterns(recent_transactions)
       IN  sess' = [sess EXCEPT ![p] =
                       [IdleSession EXCEPT
                           !.op = "detect_suspicious_patterns",
                           !.data = [NoData EXCEPT !.account_id = StrVal(account_id)],
                           !.found = found,
                           !.pc = IF found # <<>> THEN "detected" ELSE "returned",
                           !.result = IF found # <<>> THEN "none" ELSE "ok"]]
    /\ UNCHANGED <<txns, viols, patterns, now, ticks, obs>>

\* as InsertPatterns, one pattern per commit
InsertPatterns_first(store, ps, at) ==
    Append(store, [pattern_id |-> Len(store) + 1, first_detected |-> at, pattern |-> ps[1]])

\* as InsertPatterns, merging with the stored pattern of the same account and
\* type: its row is replaced, no row is added
InsertPatterns_merging(store, ps, at) ==
    LET same(r, x) == /\ r.pattern.account_id = x.account_id
                      /\ r.pattern.pattern_type = x.pattern_type
        fresh == SelectSeq(ps, LAMBDA x : \A i \in 1..Len(store) : ~same(store[i], x))
        merged == [i \in 1..Len(store) |->
                      IF \E k \in 1..Len(ps) : same(store[i], ps[k])
                      THEN [store[i] EXCEPT !.pattern =
                               ps[CHOOSE k \in 1..Len(ps) : same(store[i], ps[k])]]
                      ELSE store[i]]
    IN  merged \o [i \in 1..Len(fresh) |->
                      [pattern_id |-> Len(store) + i, first_detected |-> at,
                       pattern |-> fresh[i]]]

\* INSERT of the patterns added, in the order they were added.
InsertPatterns(store, ps, at) ==
    store \o [i \in 1..Len(ps) |->
                 [pattern_id |-> Len(store) + i, first_detected |-> at, pattern |-> ps[i]]]

\* Lines 241-253: add every pattern, commit once, return the list.
commit_patterns(p, ok) ==
    /\ sess[p].pc = "detected"
    /\ IF ok
       THEN /\ patterns' = InsertPatterns(patterns, sess[p].found, now)
            /\ sess' = [sess EXCEPT ![p].pc = "returned",
                                    ![p].commits = sess[p].commits + 1,
                                    ![p].result = "ok"]
       ELSE /\ sess' = [sess EXCEPT ![p].pc = "raised",
                                    ![p].commits = sess[p].commits + 1,
                                    ![p].result = "PersistenceError"]
            /\ UNCHANGED patterns
    /\ UNCHANGED <<txns, viols, now, ticks, obs>>

\* The histories pattern detection is run on, at hour 1000 (the window opens
\* at hour 280): rows of ACC1 in the reporting band at distinct daytime hours
\* from hour 280 on, rows at night hours, rows within the one hour 500, newer
\* daytime rows outside the band at distinct hours, a row stamped ahead of
\* the clock, and, as noise, band rows at night older than the window and
\* band rows at night of ACC2.
MaxQualifying == 4   \* rows in the band, and rows at night

BurstSizes  == {0, 5, 6}
NewerSizes  == {0, 1, query_limit - 2, query_limit}
BandAmounts == <<9000, 9999, 9500>>
NightHours  == <<22, 6, 23, 0, 2>>

History(band, night, burst, newer, ahead, noise) ==
    [i \in 1..(3 * noise) |-> ContextRow("ACC1", 9500, 24 * i + 23)]
    \o [i \in 1..(5 * noise) |-> ContextRow("ACC2", 9500, 24 * (12 + i) + 23)]
    \o [i \in 1..band |->
            ContextRow("ACC1", BandAmounts[1 + (i % 3)], 280 + 24 * (i - 1))]
    \o [i \in 1..night |->
            ContextRow("ACC1", 1000, 24 * (13 + i) + NightHours[1 + (i % 5)])]
    \o [i \in 1..burst |-> ContextRow("ACC1", 1000, 500)]
    \o [i \in 1..newer |->
            ContextRow("ACC1", IF i % 2 = 0 THEN 10000 ELSE 8999,
                       24 * (22 + ((i - 1) \div 15)) + 7 + ((i - 1) % 15))]
    \o [i \in 1..ahead |-> ContextRow("ACC1", 1000, 1001)]

Histories ==
    {History(b, g, v, f, h, x) :
        b \in 0..MaxQualifying, g \in 0..MaxQualifying, v \in BurstSizes,
        f \in NewerSizes, h \in {0, 1}, x \in {0, 1}}

PatternInit ==
    /\ txns \in Histories
    /\ viols = <<>>
    /\ patterns = <<>>
    /\ now = 1000
    /\ ticks = 0
    /\ sess = [p \in Procs |-> IdleSession]
    /\ obs = <<>>

\* each run is one call on one history
PatternNext ==
    \/ sess[1].pc = "idle" /\ detect_suspicious_patterns(1, "ACC1")
    \/ \E ok \in BOOLEAN : commit_patterns(1, ok)

PatternSpec == PatternInit /\ [][PatternNext]_vars

\* ------------------------------------------- pattern detection, repeated
\* detect_suspicious_patterns called again and again on an account whose
\* transactions stay as they are.
MaxStoredPatterns == 3   \* a call starts only while no more pattern rows are stored

\* the histories of at most a few rows more than the query returns at once
RepeatedHistories ==
    {History(b, g, v, f, 0, 0) :
        b \in 0..MaxQualifying, g \in 0..MaxQualifying, v \in BurstSizes, f \in {0, 1}}

RepeatedInit ==
    /\ txns \in RepeatedHistories
    /\ viols = <<>>
    /\ patterns = <<>>
    /\ now = 1000
    /\ ticks = 0
    /\ sess = [p \in Procs |-> IdleSession]
    /\ obs = <<>>

RepeatedNext ==
    \/ Len(patterns) <= MaxStoredPatterns /\ detect_suspicious_patterns(1, "ACC1")
    \/ \E ok \in BOOLEAN : commit_patterns(1, ok)

RepeatedSpec == RepeatedInit /\ [][RepeatedNext]_vars

\* ------------------------------------------------- overdue and active reads
Severities == {"CRITICAL", "HIGH", "MEDIUM", "LOW", "INFO"}

\* ComplianceViolation.is_critical
is_critical(v) == v.severity = "CRITICAL"

\* as is_overdue, overdue from the 24th and the 72nd hour on
is_overdue_inclusive(v, at) ==
    IF v.status \in {"RESOLVED", "CLOSED"} THEN FALSE
    ELSE IF is_critical(v) THEN at - v.detected_at >= 24
    ELSE IF v.severity = "HIGH" THEN at - v.detected_at >= 72
    ELSE FALSE

\* ComplianceViolation.is_overdue, read at time `at` (datetime.utcnow())
is_overdue(v, at) ==
    IF v.status \in {"RESOLVED", "CLOSED"} THEN FALSE
    ELSE IF is_critical(v) THEN at - v.detected_at > 24
    ELSE IF v.severity = "HIGH" THEN at - v.detected_at > 72
    ELSE FALSE

\* as ActiveViolations, keeping every row that is not CLOSED
ActiveViolations_not_closed(store, severity) ==
    SortSeq(SelectSeq(store, LAMBDA v : /\ v.status # "CLOSED"
                                        /\ severity # NoStr => v.severity = severity),
            LAMBDA a, b : a.detected_at > b.detected_at)

\* The query of get_active_violations: status OPEN or INVESTIGATING, the
\* severity asked for when one is given, newest detection first.
ActiveViolations(store, severity) ==
    SortSeq(SelectSeq(store, LAMBDA v : /\ v.status \in {"OPEN", "INVESTIGATING"}
                                        /\ severity # NoStr => v.severity = severity),
            LAMBDA a, b : a.detected_at > b.detected_at)

\* ComplianceService.get_active_violations(severity); NoStr is severity=None.
get_active_violations(p, severity) ==
    /\ CanStart(p)
    /\ sess' = [sess EXCEPT ![p] =
                   [IdleSession EXCEPT !.op = "get_active_violations",
                                       !.severity = severity,
                                       !.violations = ActiveViolations(viols, severity),
                                       !.pc = "returned",
                                       !.result = "ok"]]
    /\ UNCHANGED <<txns, viols, patterns, now, ticks, obs>>

\* A session loads the stored violation at position i and reads its
\* is_overdue property.
read_is_overdue(p, i) ==
    /\ CanStart(p)
    /\ i \in 1..Len(viols)
    /\ sess' = [sess EXCEPT ![p] =
                   [IdleSession EXCEPT
                       !.op = "is_overdue",
                       !.arg = [NoArg EXCEPT !.violation_id = viols[i].violation_id],
                       !.violations = <<viols[i]>>,
                       !.pc = "returned",
                       !.result = IF is_overdue(viols[i], now) THEN "True" ELSE "False"]]
    /\ UNCHANGED <<txns, viols, patterns, now, ticks, obs>>

\* The violations the reads are run on, at hour 100: one of every severity and
\* status, detected 0, 24, 25, 72 or 73 hours ago, alone or next to a second one.
OversightClock == 100
Ages == {0, 24, 25, 72, 73}

OversightRow(vid, severity, status, detected_at) ==
    [ViolationRow(Violation(NoStr, severity, RiskScale, [none |-> TRUE]), vid, detected_at)
        EXCEPT !.status = status,
               !.resolved_at = IF status \in {"RESOLVED", "CLOSED"} THEN detected_at ELSE None]

OversightInit ==
    /\ txns = <<>>
    /\ \E sev \in Severities, st \in Statuses, age \in Ages :
           LET first == OversightRow(1, sev, st, OversightClock - age)
           IN  viols \in {<<first>>,
                          <<first, OversightRow(2, "CRITICAL", "OPEN", OversightClock - 25)>>,
                          <<first, OversightRow(2, "HIGH", "INVESTIGATING", OversightClock - 73)>>}
    /\ patterns = <<>>
    /\ now = OversightClock
    /\ ticks = 0
    /\ sess = [p \in Procs |-> IdleSession]
    /\ obs = <<>>

OversightNext ==
    \/ \E i \in 1..2 : read_is_overdue(1, i)
    \/ \E severity \in Severities \cup {NoStr} : get_active_violations(1, severity)
    \/ \E vid \in 1..(Len(viols) + 1), ok \in BOOLEAN :
           CanResolve(vid) /\ resolve_violation(1, vid, "false positive", "officer@bank.com", ok)
    \/ Advance

OversightSpec == OversightInit /\ [][OversightNext]_vars

\* --------------------------------------------------------------- dashboard
MaxDashboardRows == 2   \* violations stored when the dashboard is requested

\* scores and hours of the dashboard are kept in hundredths: round(x, 2)
ScoreScale == 100

\* round(n / d, 2) in hundredths, for n >= 0 and d > 0: to the nearest
\* hundredth, a tie to the even one
Round2(n, d) ==
    LET q == (ScoreScale * n) \div d
        r == (ScoreScale * n) % d
    IN  IF 2 * r < d THEN q
        ELSE IF 2 * r > d THEN q + 1
        ELSE IF q % 2 = 0 THEN q ELSE q + 1

\* sum(v.risk_score for v in all_violations)
RECURSIVE SumRisk(_)
SumRisk(rows) == IF rows = <<>> THEN 0 ELSE Head(rows).risk_score + SumRisk(Tail(rows))

\* sum((v.resolved_at - v.detected_at) in hours for v in resolved_violations)
RECURSIVE SumResolutionTime(_)
SumResolutionTime(rows) ==
    IF rows = <<>> THEN 0
    ELSE Head(rows).resolved_at - Head(rows).detected_at + SumResolutionTime(Tail(rows))

\* sum(1 for v in all_violations if v.severity == severity)
CountSeverity(rows, severity) == Len(SelectSeq(rows, LAMBDA v : v.severity = severity))

\* sum(1 for v in all_violations if v.status in statuses)
CountStatus(rows, statuses) == Len(SelectSeq(rows, LAMBDA v : v.status \in statuses))

\* as ComplianceScore, with the digits after the second decimal cut off
ComplianceScore_truncated(all_violations, overdue_count) ==
    LET total_risk_score == SumRisk(all_violations)
        den  == Len(all_violations) * (RiskScale \div 10)
        base == Max2(0, 100 * den - total_risk_score)
        num  == IF overdue_count > 0 THEN Max2(0, base - 5 * overdue_count * den) ELSE base
    IN  (ScoreScale * num) \div den

\* Lines 285-296 and 308: the score as a fraction num / den of exact numbers,
\* den = N * RiskScale / 10, and its rounding to two decimals.
ComplianceScore(all_violations, overdue_count) ==
    LET total_risk_score == SumRisk(all_violations)
        den  == Len(all_violations) * (RiskScale \div 10)
        base == Max2(0, 100 * den - total_risk_score)
        num  == IF overdue_count > 0 THEN Max2(0, base - 5 * overdue_count * den) ELSE base
    IN  Round2(num, den)

\* Lines 275-283: the mean of resolved_at - detected_at in hours over the
\* violations that have both, rounded at line 307.
AverageResolutionTime(all_violations) ==
    LET resolved_violations ==
            SelectSeq(all_violations, LAMBDA v : v.resolved_at # None /\ v.detected_at # None)
    IN  IF resolved_violations # <<>>
        THEN Round2(SumResolutionTime(resolved_violations), Len(resolved_violations))
        ELSE 0

\* The ComplianceDashboard returned for the violations stored, at time `at`.
ComplianceDashboard(all_violations, at) ==
    IF all_violations = <<>>
    THEN [total_violations |-> 0, critical_violations |-> 0, high_violations |-> 0,
          medium_violations |-> 0, low_violations |-> 0, open_violations |-> 0,
          resolved_violations |-> 0, overdue_violations |-> 0,
          average_resolution_time_hours |-> 0, compliance_score |-> 100 * ScoreScale]
    ELSE LET overdue_count == Len(SelectSeq(all_violations, LAMBDA v : is_overdue(v, at)))
         IN  [total_violations    |-> Len(all_violations),
              critical_violations |-> CountSeverity(all_violations, "CRITICAL"),
              high_violations     |-> CountSeverity(all_violations, "HIGH"),
              medium_violations   |-> CountSeverity(all_violations, "MEDIUM"),
              low_violations      |-> CountSeverity(all_violations, "LOW"),
              open_violations     |-> CountStatus(all_violations, {"OPEN", "INVESTIGATING"}),
              resolved_violations |-> CountStatus(all_violations, {"RESOLVED", "CLOSED"}),
              overdue_violations  |-> overdue_count,
              average_resolution_time_hours |-> AverageResolutionTime(all_violations),
              compliance_score    |-> ComplianceScore(all_violations, overdue_count)]

\* GET /dashboard: one query for all violations, then the fold.
get_compliance_dashboard(p) ==
    /\ CanStart(p)
    /\ sess' = [sess EXCEPT ![p] =
                   [IdleSession EXCEPT !.op = "get_compliance_dashboard",
                                       !.violations = viols,
                                       !.pc = "returned",
                                       !.result = "ok"]]
    /\ obs' = ComplianceDashboard(viols, now)
    /\ UNCHANGED <<txns, viols, patterns, now, ticks>>

\* The violations the dashboard is requested over, at hour 100: of every
\* severity; open and detected 24 or 25 hours ago, under investigation for 73
\* hours, resolved or closed 10 hours after detection; with the risk scores
\* the rules give: 8.0, 3.0, 1.0001 (an amount of 10001), 12.0 (a velocity
\* total of 600000) and 10.0.
DashboardVariants ==
    {<<"OPEN", 25, 8 * RiskScale>>,
     <<"OPEN", 24, 3 * RiskScale>>,
     <<"INVESTIGATING", 73, Ratio(10001, limit_amount)>>,
     <<"RESOLVED", 73, 12 * RiskScale>>,
     <<"CLOSED", 25, 10 * RiskScale>>}

DashboardRow(vid, severity, variant) ==
    [ViolationRow(Violation(NoStr, severity, variant[3], [none |-> TRUE]),
                  vid, OversightClock - variant[2])
        EXCEPT !.status = variant[1],
               !.resolved_at = IF variant[1] \in {"RESOLVED", "CLOSED"}
                               THEN OversightClock - variant[2] + 10 ELSE None]

DashboardStores ==
    UNION {[1..n -> Severities \X DashboardVariants] : n \in 0..MaxDashboardRows}

DashboardInit ==
    /\ txns = <<>>
    /\ \E rows \in DashboardStores :
           viols = [i \in DOMAIN rows |-> DashboardRow(i, rows[i][1], rows[i][2])]
    /\ patterns = <<>>
    /\ now = OversightClock
    /\ ticks = 0
    /\ sess = [p \in Procs |-> IdleSession]
    /\ obs = <<>>

DashboardNext ==
    \/ get_compliance_dashboard(1)
    \/ Advance

DashboardSpec == DashboardInit /\ [][DashboardNext]_vars

\* ------------------------------------------------ the core on a stored book
\* Every operation of the service layer over a store that already holds
\* evaluated transactions: five of ACC1, ingested at hour 990, the ones from a
\* high-risk country flagged by the geographic rule with their violation open.
StoredRows == 5

BookClock == 1000

BookTransaction(id, risky) ==
    LET t == [ContextRow("ACC1", 1000, BookClock - 10) EXCEPT
                 !.id = id, !.location_country = IF risky THEN "IRN" ELSE "AUS"]
    IN  IF risky
        THEN Flag(t, <<APRAGeographicRule_evaluate(t, [recent_transactions |-> <<>>],
                                                   BookClock - 10)>>)
        ELSE t

\* the stored violations of the flagged rows, in the order of their transactions
BookViolations(risky) ==
    LET ids == SelectSeq([i \in 1..StoredRows |-> i], LAMBDA i : i \in risky)
    IN  [k \in 1..Len(ids) |->
            ViolationRow([APRAGeographicRule_evaluate(BookTransaction(ids[k], TRUE),
                                                      [recent_transactions |-> <<>>],
                                                      BookClock - 10)
                             EXCEPT !.transaction_id = ids[k]],
                         k, BookClock - 10)]

\* which of the five rows are the flagged ones
RiskySets == {{2, 4}, {1, 2, 3, 4, 5}}

\* the request ingested on top of the book: it triggers the three rules
BookData == {[BaseData EXCEPT !.amount = NumVal(30000), !.location_country = StrVal("IRN")]}

BookInit ==
    /\ \E risky \in RiskySets :
           /\ txns = [i \in 1..StoredRows |-> BookTransaction(i, i \in risky)]
           /\ viols = BookViolations(risky)
    /\ patterns = <<>>
    /\ now = BookClock
    /\ ticks = 0
    /\ sess = [p \in Procs |-> IdleSession]
    /\ obs = <<>>

\* one request at a time, over a storage layer that works; patterns are
\* detected while none is stored
BookNext ==
    \/ \E data \in BookData :
           Len(txns) < StoredRows + MaxTxns /\ create_transaction(1, data, TRUE)
    \/ evaluate_created(1, {})
    \/ commit_violations(1, TRUE)
    \/ update_transaction(1, TRUE)
    \/ \E vid \in 1..Len(viols) :
           CanResolve(vid) /\ resolve_violation(1, vid, "false positive", "officer@bank.com", TRUE)
    \/ patterns = <<>> /\ detect_suspicious_patterns(1, "ACC1")
    \/ commit_patterns(1, TRUE)
    \/ get_active_violations(1, NoStr)
    \/ Advance

BookSpec == BookInit /\ [][BookNext]_vars

\* ================================================================ claims
EvalOps == {"create_transaction", "evaluate_transaction"}

\* the stored violations linked to transaction t
StoredFor(t) == {i \in 1..Len(viols) : viols[i].transaction_id = t}

\* the call of session p failed at a commit inside evaluate_transaction
FailedInEvaluate(p) ==
    /\ sess[p].op \in EvalOps
    /\ sess[p].pc = "raised"
    /\ sess[p].result = "PersistenceError"
    /\ sess[p].tx.id # None

\* C1: when a commit inside evaluate_transaction fails, the store holds the
\* transaction's violations and its flag update together or not at all: a
\* stored violation of the transaction goes with a flagged, UNDER_REVIEW row.
C1_AtomicOnFailure ==
    \A p \in Procs :
        FailedInEvaluate(p) =>
            (StoredFor(sess[p].tx.id) # {}
                <=> /\ txns[sess[p].tx.id].is_flagged
                    /\ txns[sess[p].tx.id].compliance_status = "UNDER_REVIEW")

\* C2: a reader's snapshot never shows a transaction that has violations
\* committed while its row is still unflagged and PENDING.
C2_NoIntermediateRead ==
    \A t \in DOMAIN obs :
        obs[t].violations > 0 =>
            ~(~obs[t].is_flagged /\ obs[t].compliance_status = "PENDING")

\* Session p runs the rule loop in this step: the evaluation inside
\* create_transaction, or evaluate_transaction called on a stored transaction.
EvalStep(p) ==
    /\ sess'[p] # sess[p]
    /\ \/ sess[p].pc = "created"
       \/ CanStart(p) /\ sess'[p].op = "evaluate_transaction"

\* What the rules that do not raise yield for transaction t, in registry order.
ExpectedViolations(t, raised) ==
    LET context == _build_evaluation_context(t, txns, now)
        hit == SelectSeq(Rules, LAMBDA r : /\ r \notin raised
                                           /\ evaluate(r, t, context, now) # NoViolation)
    IN  [k \in 1..Len(hit) |->
            [evaluate(hit[k], t, context, now) EXCEPT !.transaction_id = t.id]]

\* violation v of the returned list is a row of the table
IsStored(v, store) ==
    \E i \in 1..Len(store) : /\ store[i].rule = v.rule
                             /\ store[i].transaction_id = v.transaction_id
                             /\ store[i].risk_score = v.risk_score
                             /\ store[i].severity = v.severity

\* C3: a rule that raises is skipped: the call does not raise, every rule of
\* the registry is still called, the list holds exactly the violations of the
\* rules that did not raise and trigger, and when the commits succeed those
\* violations are stored and the transaction is flagged.
C3_RuleErrorSkipped ==
    [][\A p \in Procs :
          /\ EvalStep(p) =>
                /\ sess'[p].pc \in {"evaluated", "returned"}
                /\ sess'[p].ran = RuleIds
                /\ sess'[p].violations = ExpectedViolations(sess'[p].tx, sess'[p].raised)
          /\ sess[p].pc = "evaluated" /\ sess'[p].pc = "persisted" =>
                /\ Len(viols') = Len(viols) + Len(sess[p].violations)
                /\ \A k \in 1..Len(sess[p].violations) :
                       IsStored(sess[p].violations[k], viols')
          /\ sess[p].pc = "persisted" /\ sess'[p].pc = "returned" =>
                /\ txns'[sess[p].tx.id].is_flagged
                /\ txns'[sess[p].tx.id].compliance_status = "UNDER_REVIEW"
                /\ sess'[p].violations = sess[p].violations]_vars

\* a rule raised, another triggered, and the call returned with the
\* violation stored and the transaction flagged
C3_Witness ==
    \E p \in Procs :
        /\ sess[p].op \in EvalOps
        /\ sess[p].pc = "returned"
        /\ sess[p].raised # {}
        /\ sess[p].violations # <<>>
        /\ \A k \in 1..Len(sess[p].violations) : IsStored(sess[p].violations[k], viols)
        /\ txns[sess[p].tx.id].is_flagged

\* x is the largest risk score among violations vs
IsMaxRisk(x, vs) ==
    /\ \E k \in 1..Len(vs) : vs[k].risk_score = x
    /\ \A k \in 1..Len(vs) : vs[k].risk_score <= x

\* C4: when evaluate_transaction has collected violations and returns, the
\* transaction (the object returned and its row) is flagged, UNDER_REVIEW and
\* carries the largest risk score of the returned violations.
C4_FlaggedWithMaxRisk ==
    \A p \in Procs :
        (sess[p].op \in EvalOps /\ sess[p].pc = "returned" /\ sess[p].violations # <<>>) =>
            LET tx  == sess[p].tx
                row == txns[tx.id]
            IN  /\ tx.is_flagged
                /\ tx.compliance_status = "UNDER_REVIEW"
                /\ IsMaxRisk(tx.risk_score, sess[p].violations)
                /\ row.is_flagged
                /\ row.compliance_status = "UNDER_REVIEW"
                /\ row.risk_score = tx.risk_score

\* a call returned two violations with different scores, the first the lower
C4_Witness ==
    \E p \in Procs :
        /\ sess[p].op \in EvalOps
        /\ sess[p].pc = "returned"
        /\ Len(sess[p].violations) >= 2
        /\ sess[p].violations[1].risk_score < sess[p].tx.risk_score
        /\ txns[sess[p].tx.id].is_flagged

\* C5: when no rule triggers, evaluate_transaction returns at once: no commit,
\* no change to either table, and the transaction's compliance fields are
\* those it had before, flagged or not.
C5_NoViolationNoWrite ==
    [][\A p \in Procs :
          (EvalStep(p) /\ sess'[p].violations = <<>>) =>
              /\ sess'[p].pc = "returned"
              /\ sess'[p].result = "ok"
              /\ sess'[p].commits = (IF sess[p].pc = "created" THEN sess[p].commits ELSE 0)
              /\ sess'[p].tx = txns[sess'[p].tx.id]
              /\ txns' = txns
              /\ viols' = viols]_vars

\* a flagged transaction was evaluated again, no rule triggered, and it is
\* still flagged
C5_Witness ==
    \E p \in Procs :
        /\ sess[p].op = "evaluate_transaction"
        /\ sess[p].pc = "returned"
        /\ sess[p].violations = <<>>
        /\ sess[p].commits = 0
        /\ sess[p].tx.is_flagged
        /\ txns[sess[p].tx.id].compliance_status = "UNDER_REVIEW"

\* Session p enters create_transaction in this step.
CreateStep(p) ==
    /\ sess'[p] # sess[p]
    /\ CanStart(p)
    /\ sess'[p].op = "create_transaction"

\* the ways of failing validation that the claim lists
ListedInvalid(data) ==
    \/ data.account_id.kind \in {"missing", "null"}
    \/ data.amount.kind \in {"missing", "null"}
    \/ data.transaction_type.kind \in {"missing", "null"}
    \/ data.amount.kind = "str"
    \/ data.amount.kind = "num" /\ data.amount.num <= 0
    \/ data.transaction_type.kind = "str"
          /\ data.transaction_type.str \notin {"DEBIT", "CREDIT", "TRANSFER"}
    \/ data.currency.kind = "code" /\ Len(data.currency.code) # 3

\* C6: create_transaction on data that fail validation raises
\* DataQualityViolation with nothing committed, no rule called and both tables
\* as they were.
C6_InvalidRejectedFirst ==
    [][\A p \in Procs :
          (CreateStep(p) /\ ListedInvalid(sess'[p].data)) =>
              /\ sess'[p].pc = "raised"
              /\ sess'[p].result = "DataQualityViolation"
              /\ sess'[p].commits = 0
              /\ sess'[p].ran = {}
              /\ sess'[p].violations = <<>>
              /\ txns' = txns
              /\ viols' = viols]_vars

\* a request that would trigger two rules was refused for its currency alone
C6_Witness ==
    \E p \in Procs :
        /\ sess[p].op = "create_transaction"
        /\ sess[p].result = "DataQualityViolation"
        /\ sess[p].data.currency.kind = "code"
        /\ sess[p].data.amount = NumVal(30000)
        /\ sess[p].commits = 0
        /\ txns = <<>>

\* Session p calls resolve_violation in this step.
ResolveStep(p) ==
    /\ CanStart(p)
    /\ sess'[p].op = "resolve_violation"
    /\ sess'[p] # sess[p] \/ viols' # viols

\* the stored violations whose id is violation_id
Matching(violation_id) == {i \in 1..Len(viols) : viols[i].violation_id = violation_id}

\* C7: resolve_violation on the id of a stored violation commits once; when
\* the store accepts the commit the call returns true and that row, and no
\* other, has status RESOLVED, resolved_at the current time, resolution_notes
\* the notes given and assigned_to the resolver; when the store refuses it the
\* error reaches the caller and no row changes.
C7_ResolveFound ==
    [][\A p \in Procs :
          (ResolveStep(p) /\ Matching(sess'[p].arg.violation_id) # {}) =>
              LET a == sess'[p].arg
              IN  /\ sess'[p].commits = 1
                  /\ \/ /\ sess'[p].pc = "returned"
                        /\ sess'[p].result = "True"
                        /\ Len(viols') = Len(viols)
                        /\ \A i \in 1..Len(viols) :
                              IF i \in Matching(a.violation_id)
                              THEN /\ viols'[i].status = "RESOLVED"
                                   /\ viols'[i].resolved_at = now
                                   /\ viols'[i].resolution_notes = a.resolution_notes
                                   /\ viols'[i].assigned_to = a.resolved_by
                                   /\ viols'[i].violation_id = viols[i].violation_id
                                   /\ viols'[i].detected_at = viols[i].detected_at
                                   /\ viols'[i].risk_score = viols[i].risk_score
                                   /\ viols'[i].transaction_id = viols[i].transaction_id
                              ELSE viols'[i] = viols[i]
                     \/ /\ sess'[p].pc = "raised"
                        /\ sess'[p].result = "PersistenceError"
                        /\ viols' = viols]_vars

\* a violation detected earlier was resolved now
C7_Witness ==
    \E p \in Procs : \E i \in 1..Len(viols) :
        /\ sess[p].op = "resolve_violation"
        /\ sess[p].result = "True"
        /\ sess[p].commits = 1
        /\ viols[i].violation_id = sess[p].arg.violation_id
        /\ viols[i].status = "RESOLVED"
        /\ viols[i].resolved_at = now
        /\ viols[i].detected_at < now
        /\ viols[i].assigned_to = sess[p].arg.resolved_by
        /\ viols[i].resolution_notes = sess[p].arg.resolution_notes

\* C8: resolve_violation on an id no stored violation has returns false, does
\* not raise, commits nothing and leaves every row as it was.
C8_ResolveNotFound ==
    [][\A p \in Procs :
          (ResolveStep(p) /\ Matching(sess'[p].arg.violation_id) = {}) =>
              /\ sess'[p].pc = "returned"
              /\ sess'[p].result = "False"
              /\ sess'[p].commits = 0
              /\ viols' = viols
              /\ txns' = txns]_vars

\* an unknown id was refused while open violations were stored
C8_Witness ==
    \E p \in Procs :
        /\ sess[p].op = "resolve_violation"
        /\ sess[p].pc = "returned"
        /\ sess[p].result = "False"
        /\ sess[p].commits = 0
        /\ viols # <<>>
        /\ Matching(sess[p].arg.violation_id) = {}
        /\ \A i \in 1..Len(viols) : viols[i].status = "OPEN"

\* C9: every stored violation has a resolved_at exactly when its status is
\* RESOLVED or CLOSED.
C9_ResolvedAtIffResolved ==
    \A i \in 1..Len(viols) :
        viols[i].resolved_at # None <=> viols[i].status \in {"RESOLVED", "CLOSED"}

\* one violation of a transaction is resolved, another is still open
C9_Witness ==
    \E i, j \in 1..Len(viols) :
        /\ viols[i].status = "RESOLVED"
        /\ viols[i].resolved_at # None
        /\ viols[j].status = "OPEN"
        /\ viols[j].resolved_at = None
        /\ viols[j].transaction_id = viols[i].transaction_id

\* C10: once a violation is resolved, no later step (a second resolve
\* included) changes its resolved_at.
C10_ResolvedAtKept ==
    [][\A i \in 1..Len(viols) :
          viols[i].status = "RESOLVED" => viols'[i].resolved_at = viols[i].resolved_at]_vars

C12_ViolationsLinked ==
    \A p \in Procs :
        (sess[p].op \in EvalOps /\ sess[p].pc \in {"evaluated", "persisted", "returned"}) =>
            /\ sess[p].tx.id \in 1..Len(txns)
            /\ \A k \in 1..Len(sess[p].violations) :
                   sess[p].violations[k].transaction_id = sess[p].tx.id

\* a call returned one violation of each of the three rules for transaction 1
C12_Witness ==
    \E p \in Procs :
        /\ sess[p].op \in EvalOps
        /\ sess[p].pc = "returned"
        /\ {sess[p].violations[k].rule : k \in 1..Len(sess[p].violations)} = RuleIds
        /\ \A k \in 1..Len(sess[p].violations) : sess[p].violations[k].transaction_id = 1

\* Session p has called the evaluate of rule r on its own.
RuleCall(p, r) == sess[p].op = "rule.evaluate" /\ sess[p].ran = {r}

\* C13: the transaction limit rule returns nothing for an amount up to and
\* including limit_amount, and for a larger amount one violation of severity
\* HIGH whose risk score is amount / limit_amount, at most 10.0.
C13_LimitRule ==
    \A p \in Procs :
        RuleCall(p, "APRA-TXN-LIMIT-001") =>
            LET a  == sess[p].tx.amount
                vs == sess[p].violations
            IN  IF a <= 10000
                THEN vs = <<>>
                ELSE /\ Len(vs) = 1
                     /\ vs[1].severity = "HIGH"
                     /\ vs[1].rule = "APRA-TXN-LIMIT-001"
                     /\ vs[1].risk_score =
                           (IF a >= 10 * 10000 THEN 10 * RiskScale
                            ELSE a * (RiskScale \div 10000))

\* one unit above the limit the rule triggers, with a score just above 1.0
C13_Witness ==
    \E p \in Procs :
        /\ RuleCall(p, "APRA-TXN-LIMIT-001")
        /\ sess[p].tx.amount = 10001
        /\ Len(sess[p].violations) = 1
        /\ sess[p].violations[1].risk_score > RiskScale
        /\ sess[p].violations[1].risk_score < 2 * RiskScale

\* The context rows the velocity rule is to count for transaction t: same
\* account, stamped no more than one hour back.
MatchingRows(t) ==
    {i \in 1..Len(txns) : /\ txns[i].account_id = t.account_id
                          /\ txns[i].transaction_timestamp >= now - 1}

RECURSIVE AmountOf(_)
AmountOf(rows) ==
    IF rows = {} THEN 0
    ELSE LET i == CHOOSE j \in rows : TRUE
         IN  txns[i].amount + AmountOf(rows \ {i})

VelocityCount(t) == Cardinality(MatchingRows(t)) + 1
VelocityTotal(t) == AmountOf(MatchingRows(t)) + t.amount

\* C14: the velocity rule triggers exactly when the count or the total of the
\* account's context transactions of the last hour, the evaluated transaction
\* included, exceeds its maximum; rows of other accounts and rows older than
\* one hour do not enter either number.
C14_VelocityTrigger ==
    \A p \in Procs :
        RuleCall(p, "APRA-VELOCITY-001") =>
            LET t  == sess[p].tx
                vs == sess[p].violations
            IN  /\ vs # <<>> <=> (VelocityCount(t) > 10 \/ VelocityTotal(t) > 50000)
                /\ vs # <<>> =>
                      /\ Len(vs) = 1
                      /\ vs[1].violation_data.transaction_count = VelocityCount(t)
                      /\ vs[1].violation_data.total_amount = VelocityTotal(t)

\* the rule stayed silent on a context of more than twenty rows, all of them of
\* another account or older than one hour
C14_Witness ==
    \E p \in Procs :
        /\ RuleCall(p, "APRA-VELOCITY-001")
        /\ sess[p].violations = <<>>
        /\ Len(txns) >= 22
        /\ MatchingRows(sess[p].tx) = {}

\* C15: a velocity violation is CRITICAL exactly when the count exceeds twice
\* max_transactions_per_hour, and HIGH otherwise, whatever triggered it.
C15_VelocitySeverity ==
    \A p \in Procs :
        (RuleCall(p, "APRA-VELOCITY-001") /\ sess[p].violations # <<>>) =>
            sess[p].violations[1].severity =
                (IF VelocityCount(sess[p].tx) > 2 * 10 THEN "CRITICAL" ELSE "HIGH")

\* a violation triggered by the total alone, with the count within its maximum
C15_Witness ==
    \E p \in Procs :
        /\ RuleCall(p, "APRA-VELOCITY-001")
        /\ sess[p].violations # <<>>
        /\ VelocityCount(sess[p].tx) <= 10
        /\ VelocityTotal(sess[p].tx) > 50000
        /\ sess[p].violations[1].severity = "HIGH"

\* C16: the geographic rule returns a violation exactly for a transaction whose
\* location_country is on the high-risk list, and that violation is CRITICAL
\* with risk score 8.0 and requires_enhanced_due_diligence set, whatever the
\* amount and the context.
C16_GeographicRule ==
    \A p \in Procs :
        RuleCall(p, "APRA-GEO-001") =>
            LET t  == sess[p].tx
                vs == sess[p].violations
            IN  /\ vs # <<>> <=>
                      t.location_country \in {"AFG", "IRN", "IRQ", "PRK", "SYR", "YEM"}
                /\ vs # <<>> =>
                      /\ Len(vs) = 1
                      /\ vs[1].severity = "CRITICAL"
                      /\ vs[1].risk_score = 8 * RiskScale
                      /\ vs[1].violation_data.requires_enhanced_due_diligence

\* a small transaction from the last country of the list, over a context that
\* is not empty
C16_Witness ==
    \E p \in Procs :
        /\ RuleCall(p, "APRA-GEO-001")
        /\ sess[p].tx.location_country = "YEM"
        /\ sess[p].tx.amount < limit_amount
        /\ txns # <<>>
        /\ Len(sess[p].violations) = 1
        /\ sess[p].violations[1].severity = "CRITICAL"

\* Session p has called detect_suspicious_patterns (and it has not raised).
DetectCall(p) ==
    /\ sess[p].op = "detect_suspicious_patterns"
    /\ sess[p].pc \in {"detected", "returned"}

\* The account's transactions of the last 30 days, for the account of the call
\* of session p.
InWindow(p) ==
    {i \in 1..Len(txns) : /\ txns[i].account_id = sess[p].data.account_id.str
                          /\ txns[i].transaction_timestamp >= now - 720}

InBand(p)  == {i \in InWindow(p) : txns[i].amount >= 9000 /\ txns[i].amount < 10000}

AtNight(p) == {i \in InWindow(p) : \/ txns[i].transaction_timestamp % 24 \in 22..23
                                   \/ txns[i].transaction_timestamp % 24 \in 0..6}

\* the largest number of window transactions within one calendar hour
BusiestHour(p) ==
    LET sizes == {Cardinality({j \in InWindow(p) :
                      txns[j].transaction_timestamp = txns[i].transaction_timestamp}) :
                  i \in InWindow(p)}
    IN  IF sizes = {} THEN 0 ELSE CHOOSE c \in sizes : \A d \in sizes : d <= c

\* the list holds a pattern of this type with this frequency_count
HasPattern(found, type, count) ==
    \E k \in 1..Len(found) : /\ found[k].pattern_type = type
                             /\ found[k].frequency_count = count

ExpectedPatterns(p) ==
    SelectSeq(<<[pattern_type |-> "VELOCITY", frequency_count |-> BusiestHour(p),
                 present |-> BusiestHour(p) > 5],
                [pattern_type |-> "AMOUNT", frequency_count |-> Cardinality(InBand(p)),
                 present |-> Cardinality(InBand(p)) >= 3],
                [pattern_type |-> "TEMPORAL", frequency_count |-> Cardinality(AtNight(p)),
                 present |-> Cardinality(AtNight(p)) >= 3]>>,
              LAMBDA x : x.present)

\* C19: with at least 5 transactions in the window the list holds, in the order
\* VELOCITY, AMOUNT, TEMPORAL, one pattern for each type whose condition the
\* window's transactions meet, with the frequency_count the window gives.
C19_PatternsOfWindow ==
    \A p \in Procs :
        (DetectCall(p) /\ Cardinality(InWindow(p)) >= 5) =>
            /\ Len(sess[p].found) = Len(ExpectedPatterns(p))
            /\ \A k \in 1..Len(sess[p].found) :
                   /\ sess[p].found[k].pattern_type = ExpectedPatterns(p)[k].pattern_type
                   /\ sess[p].found[k].frequency_count = ExpectedPatterns(p)[k].frequency_count

\* Session p enters detect_suspicious_patterns in this step.
DetectStep(p) ==
    /\ CanStart(p)
    /\ sess'[p].op = "detect_suspicious_patterns"
    /\ sess'[p] # sess[p]

\* C20: a call that found patterns commits once, and the commit stores every
\* pattern of the list once, all of them in that one step or none; a call that
\* found none commits nothing; no other step writes a pattern.
C20_PatternsInOneBatch ==
    [][/\ \A p \in Procs :
             /\ DetectStep(p) =>
                   /\ patterns' = patterns
                   /\ sess'[p].commits = 0
                   /\ sess'[p].found = <<>> <=> sess'[p].pc = "returned"
             /\ (sess[p].pc = "detected" /\ sess'[p] # sess[p]) =>
                   /\ sess'[p].commits = 1
                   /\ sess'[p].found = sess[p].found
                   /\ \/ /\ sess'[p].pc = "returned"
                         /\ Len(patterns') = Len(patterns) + Len(sess[p].found)
                         /\ \A k \in 1..Len(patterns) : patterns'[k] = patterns[k]
                         /\ \A k \in 1..Len(sess[p].found) :
                                patterns'[Len(patterns) + k].pattern = sess[p].found[k]
                      \/ /\ sess'[p].pc = "raised"
                         /\ patterns' = patterns
       /\ patterns' # patterns => \E p \in Procs : sess[p].pc = "detected"]_vars

\* a call found three patterns and its one commit stored the three
C20_Witness ==
    \E p \in Procs :
        /\ sess[p].op = "detect_suspicious_patterns"
        /\ sess[p].pc = "returned"
        /\ Len(sess[p].found) = 3
        /\ sess[p].commits = 1
        /\ Len(patterns) = 3
        /\ \A k \in 1..3 : patterns[k].pattern = sess[p].found[k]

\* C21: every call that found patterns and committed adds one new row for each
\* pattern of its list and leaves every row stored before as it was, so that
\* after k such calls on unchanged data the table holds the patterns of one
\* call k times over, each under an id of its own.
C21_NoDeduplication ==
    [][\A p \in Procs :
          (sess[p].pc = "detected" /\ sess'[p].pc = "returned") =>
              LET n == Len(sess[p].found)
              IN  /\ n > 0
                  /\ Len(patterns') = Len(patterns) + n
                  /\ \A i \in 1..Len(patterns) : patterns'[i] = patterns[i]
                  /\ \A i \in 1..Len(patterns') :
                         patterns'[i].pattern = sess[p].found[((i - 1) % n) + 1]
                  /\ \A i, j \in 1..Len(patterns') :
                         i # j => patterns'[i].pattern_id # patterns'[j].pattern_id]_vars

\* two calls on the same history found the same three patterns, and the table
\* holds them twice
C21_Witness ==
    \E p \in Procs :
        /\ sess[p].op = "detect_suspicious_patterns"
        /\ sess[p].pc = "returned"
        /\ Len(sess[p].found) = 3
        /\ Len(patterns) = 6
        /\ \A k \in 1..3 : /\ patterns[k].pattern = patterns[k + 3].pattern
                           /\ patterns[k].pattern_id # patterns[k + 3].pattern_id

\* Session p reads is_overdue of a stored violation in this step.
OverdueStep(p) ==
    /\ CanStart(p)
    /\ sess'[p].op = "is_overdue"
    /\ sess'[p] # sess[p]

\* the stored violation with this id
StoredViolationOf(violation_id) ==
    viols[CHOOSE i \in 1..Len(viols) : viols[i].violation_id = violation_id]

\* C22: is_overdue is true exactly when the status is neither RESOLVED nor
\* CLOSED and the violation is CRITICAL and detected more than 24 hours ago, or
\* HIGH and detected more than 72 hours ago; it is false for MEDIUM, LOW and
\* INFO at any age and for every resolved or closed violation.
C22_OverdueRule ==
    [][\A p \in Procs :
          OverdueStep(p) =>
              LET v   == StoredViolationOf(sess'[p].arg.violation_id)
                  age == now - v.detected_at
              IN  /\ sess'[p].result \in {"True", "False"}
                  /\ sess'[p].result = "True" <=>
                        /\ v.status \notin {"RESOLVED", "CLOSED"}
                        /\ \/ v.severity = "CRITICAL" /\ age > 24
                           \/ v.severity = "HIGH" /\ age > 72
                  /\ v.severity \in {"MEDIUM", "LOW", "INFO"} => sess'[p].result = "False"
                  /\ v.status \in {"RESOLVED", "CLOSED"} => sess'[p].result = "False"]_vars

\* a HIGH violation under investigation, detected 73 hours ago, was read as
\* overdue while a CRITICAL one detected 24 hours ago is stored next to it
C22_Witness ==
    \E p \in Procs :
        /\ sess[p].op = "is_overdue"
        /\ sess[p].result = "True"
        /\ ticks = 0
        /\ Len(viols) = 2
        /\ sess[p].arg.violation_id = 2
        /\ viols[2].severity = "HIGH"
        /\ viols[2].status = "INVESTIGATING"
        /\ now - viols[2].detected_at = 73
        /\ viols[1].severity = "CRITICAL"
        /\ viols[1].status = "OPEN"
        /\ now - viols[1].detected_at = 24

\* Session p requests the dashboard in this step.
DashboardStep(p) ==
    /\ CanStart(p)
    /\ sess'[p].op = "get_compliance_dashboard"
    /\ sess'[p] # sess[p] \/ obs' # obs

\* The stored violations that are overdue now: not RESOLVED or CLOSED, and
\* CRITICAL for more than 24 hours or HIGH for more than 72.
OverdueNow ==
    {i \in 1..Len(viols) :
        /\ viols[i].status \notin {"RESOLVED", "CLOSED"}
        /\ \/ viols[i].severity = "CRITICAL" /\ now - viols[i].detected_at > 24
           \/ viols[i].severity = "HIGH" /\ now - viols[i].detected_at > 72}

RECURSIVE RiskOf(_)
RiskOf(rows) ==
    IF rows = {} THEN 0
    ELSE LET i == CHOOSE j \in rows : TRUE
         IN  viols[i].risk_score + RiskOf(rows \ {i})

\* max(0, max(0, 100 - (sum of risk_score / (N * 10)) * 100) - 5 * overdue_count)
\* as the fraction ScoreNumerator / ScoreDenominator, for N > 0 violations
ScoreDenominator == Len(viols) * (RiskScale \div 10)

ScoreNumerator ==
    LET base == 100 * ScoreDenominator - RiskOf(1..Len(viols))
        floored == IF base < 0 THEN 0 ELSE base
        rest == floored - 5 * Cardinality(OverdueNow) * ScoreDenominator
    IN  IF rest < 0 THEN 0 ELSE rest

\* the dashboard returned over an empty table
EmptyDashboard(d) ==
    /\ d.compliance_score = 100 * ScoreScale
    /\ d.total_violations = 0
    /\ d.critical_violations = 0
    /\ d.high_violations = 0
    /\ d.medium_violations = 0
    /\ d.low_violations = 0
    /\ d.open_violations = 0
    /\ d.resolved_violations = 0
    /\ d.overdue_violations = 0
    /\ d.average_resolution_time_hours = 0

\* C23, as stated: the compliance_score returned is 100.0, with every count
\* 0, over no violations, and otherwise is the value of the formula itself.
C23_ComplianceScore ==
    [][\A p \in Procs :
          DashboardStep(p) =>
              IF viols = <<>> THEN EmptyDashboard(obs')
              ELSE /\ obs'.total_violations = Len(viols)
                   /\ obs'.overdue_violations = Cardinality(OverdueNow)
                   /\ obs'.compliance_score * ScoreDenominator
                         = ScoreScale * ScoreNumerator]_vars

\* C23, amended: otherwise the compliance_score returned is the value of the
\* formula rounded to two decimals, the hundredth nearest to it.
C23_ComplianceScoreRounded ==
    [][\A p \in Procs :
          DashboardStep(p) =>
              IF viols = <<>> THEN EmptyDashboard(obs')
              ELSE LET diff == obs'.compliance_score * ScoreDenominator
                                  - ScoreScale * ScoreNumerator
                   IN  /\ obs'.total_violations = Len(viols)
                       /\ obs'.overdue_violations = Cardinality(OverdueNow)
                       /\ 2 * diff <= ScoreDenominator
                       /\ 2 * diff >= - ScoreDenominator]_vars

\* one HIGH violation with risk score 1.0001, overdue: 100 - 10.001 - 5 is
\* 84.999, and the dashboard shows 85.0
C23_Witness ==
    /\ sess[1].op = "get_compliance_dashboard"
    /\ ticks = 0
    /\ Len(viols) = 1
    /\ viols[1].risk_score = Ratio(10001, limit_amount)
    /\ viols[1].severity = "HIGH"
    /\ OverdueNow = {1}
    /\ obs.overdue_violations = 1
    /\ obs.compliance_score = 85 * ScoreScale

\* The stored transactions other than t of t's account, stamped no more than
\* one hour before t was ingested.
OthersWithinHour(t) ==
    {i \in 1..Len(txns) : /\ i # t.id
                          /\ txns[i].account_id = t.account_id
                          /\ txns[i].transaction_timestamp >= t.transaction_timestamp - 1}

\* the velocity violations in a list
VelocityViolations(vs) == SelectSeq(vs, LAMBDA v : v.rule = "APRA-VELOCITY-001")

\* C24: when create_transaction has evaluated a transaction of an account with
\* N other transactions within the last hour, the velocity rule has worked
\* with count N + 1 and total (sum of the N amounts) + the new amount: it
\* triggers exactly when one of these exceeds its maximum, and reports them.
C24_CountedOnce ==
    \A p \in Procs :
        (/\ sess[p].op = "create_transaction"
         /\ sess[p].pc \in {"evaluated", "persisted", "returned"}
         /\ "APRA-VELOCITY-001" \in sess[p].ran \ sess[p].raised) =>
            LET t     == sess[p].tx
                count == Cardinality(OthersWithinHour(t)) + 1
                total == AmountOf(OthersWithinHour(t)) + t.amount
                vv    == VelocityViolations(sess[p].violations)
            IN  /\ vv # <<>> <=> (count > 10 \/ total > 50000)
                /\ vv # <<>> => /\ vv[1].violation_data.transaction_count = count
                                /\ vv[1].violation_data.total_amount = total

\* The call of session p is a create_transaction that has run the rules.
EvaluatedCreate(p) ==
    /\ sess[p].op = "create_transaction"
    /\ sess[p].ran # {}

RowsOf(v) ==
    {i \in 1..Len(viols) : /\ viols[i].rule = v.rule
                           /\ viols[i].transaction_id = v.transaction_id
                           /\ viols[i].risk_score = v.risk_score
                           /\ viols[i].severity = v.severity}

EvaluationOver(t) ==
    \A p \in Procs :
        ~(/\ sess[p].op = "create_transaction"
          /\ sess[p].pc \in {"created", "evaluated", "persisted"}
          /\ sess[p].tx.id = t)

\* C27: once the evaluation that follows its creation is over, no step of any
\* operation (resolve_violation, detect_suspicious_patterns, the queries, the
\* ingestion of another transaction) changes a transaction's is_flagged,
\* risk_score or compliance_status, and no step removes a transaction.
C27_ComplianceFieldsKept ==
    [][/\ Len(txns') >= Len(txns)
       /\ \A t \in 1..Len(txns) :
              /\ txns'[t].id = txns[t].id
              /\ EvaluationOver(t) =>
                    /\ txns'[t].is_flagged = txns[t].is_flagged
                    /\ txns'[t].risk_score = txns[t].risk_score
                    /\ txns'[t].compliance_status = txns[t].compliance_status]_vars

\* the only violation of flagged transaction 2 is resolved, a pattern of the
\* account is stored, a later transaction has been ingested and flagged, and
\* transaction 2 is still flagged, UNDER_REVIEW, with risk score 8.0
C27_Witness ==
    /\ Len(txns) > StoredRows
    /\ txns[Len(txns)].is_flagged
    /\ patterns # <<>>
    /\ StoredFor(2) # {}
    /\ \A i \in StoredFor(2) : viols[i].status = "RESOLVED"
    /\ txns[2].is_flagged
    /\ txns[2].compliance_status = "UNDER_REVIEW"
    /\ txns[2].risk_score = 8 * RiskScale

\* Session p takes a step of evaluate_transaction: the rule loop, the commit
\* of the violations, or the update of the transaction.
EvaluationStep(p) ==
    /\ sess'[p] # sess[p]
    /\ \/ sess[p].pc \in {"created", "evaluated", "persisted"}
       \/ CanStart(p) /\ sess'[p].op = "evaluate_transaction"

\* C28: a step of the evaluation of transaction T leaves every other
\* transaction, every column of T but its three compliance fields, and every
\* violation stored before as they were; the rows it adds are violations
\* linked to T; and the rule loop changes neither table nor the transaction
\* object.  This holds with the evaluations of two sessions interleaved.
C28_EvaluationFrame ==
    [][\A p \in Procs :
          EvaluationStep(p) =>
              LET T == sess'[p].tx.id
              IN  /\ Len(txns') = Len(txns)
                  /\ \A t \in 1..Len(txns) :
                         IF t = T
                         THEN txns'[t] = [txns[t] EXCEPT
                                             !.is_flagged = txns'[t].is_flagged,
                                             !.risk_score = txns'[t].risk_score,
                                             !.compliance_status = txns'[t].compliance_status]
                         ELSE txns'[t] = txns[t]
                  /\ Len(viols') >= Len(viols)
                  /\ \A i \in 1..Len(viols) : viols'[i] = viols[i]
                  /\ \A i \in (Len(viols) + 1)..Len(viols') : viols'[i].transaction_id = T
                  /\ patterns' = patterns
                  /\ \A q \in Procs \ {p} : sess'[q] = sess[q]
                  /\ sess[p].pc = "created" =>
                        /\ txns' = txns
                        /\ viols' = viols
                        /\ sess'[p].tx = sess[p].tx]_vars

\* two evaluations interleaved: both transactions are flagged and have their
\* violations stored, those of the transaction created second stored first
C28_Witness ==
    /\ Len(txns) = 2
    /\ txns[1].is_flagged
    /\ txns[2].is_flagged
    /\ StoredFor(1) # {}
    /\ StoredFor(2) # {}
    /\ viols[1].transaction_id = 2
    /\ \A p \in Procs : sess[p].op = "create_transaction" /\ sess[p].pc = "returned"

\* what the window of the call of session p gives for a pattern type
WindowCount(p, type) ==
    CASE type = "VELOCITY" -> BusiestHour(p)
      [] type = "AMOUNT"   -> Cardinality(InBand(p))
      [] type = "TEMPORAL" -> Cardinality(AtNight(p))

\* C29: the counts of detect_suspicious_patterns are taken over every
\* transaction of the account in the last 30 days, however many there are:
\* each pattern returned carries the count of the whole window, and a count
\* of the whole window that meets its threshold yields its pattern.
C29_WholeWindowAnalysed ==
    \A p \in Procs :
        (DetectCall(p) /\ Cardinality(InWindow(p)) >= 5) =>
            /\ \A k \in 1..Len(sess[p].found) :
                   sess[p].found[k].frequency_count
                       = WindowCount(p, sess[p].found[k].pattern_type)
            /\ WindowCount(p, "VELOCITY") > 5 =>
                   \E k \in 1..Len(sess[p].found) : sess[p].found[k].pattern_type = "VELOCITY"
            /\ WindowCount(p, "AMOUNT") >= 3 =>
                   \E k \in 1..Len(sess[p].found) : sess[p].found[k].pattern_type = "AMOUNT"
            /\ WindowCount(p, "TEMPORAL") >= 3 =>
                   \E k \in 1..Len(sess[p].found) : sess[p].found[k].pattern_type = "TEMPORAL"


\* Session p lists the active violations in this step.
ActiveListStep(p) ==
    /\ CanStart(p)
    /\ sess'[p].op = "get_active_violations"
    /\ sess'[p] # sess[p]

\* the positions of the violations of a store that a call of resolve_violation
\* has resolved: the rows that carry the resolver
ResolvedByCall(store) == {i \in 1..Len(store) : store[i].assigned_to \in Users}

\* C30: once resolve_violation has succeeded for a violation, the violation
\* stays resolved in every later state: whatever happens next and however far
\* the clock goes on, no list of get_active_violations, for any severity filter
\* or none, holds it, and its is_overdue reads false.
C30_ResolvedStaysInactive ==
    [][/\ \A p \in Procs :
              (ResolveStep(p) /\ sess'[p].result = "True") =>
                  \E i \in ResolvedByCall(viols') :
                      viols'[i].violation_id = sess'[p].arg.violation_id
       /\ \A i \in ResolvedByCall(viols) :
              /\ i \in ResolvedByCall(viols')
              /\ viols'[i].violation_id = viols[i].violation_id
       /\ \A i \in ResolvedByCall(viols') :
              /\ viols'[i].status = "RESOLVED"
              /\ \A p \in Procs :
                     /\ ActiveListStep(p) =>
                            \A k \in 1..Len(sess'[p].violations) :
                                sess'[p].violations[k].violation_id # viols'[i].violation_id
                     /\ (OverdueStep(p) /\ sess'[p].arg.violation_id = viols'[i].violation_id) =>
                            sess'[p].result = "False"]_vars

\* a CRITICAL violation detected 24 hours before it was resolved is read two
\* hours later, 26 hours old: not overdue
C30_Witness ==
    \E p \in Procs :
        /\ sess[p].op = "is_overdue"
        /\ sess[p].result = "False"
        /\ sess[p].arg.violation_id = 1
        /\ ticks = 1
        /\ Len(viols) = 2
        /\ viols[1].severity = "CRITICAL"
        /\ viols[1].status = "RESOLVED"
        /\ viols[1].assigned_to = "officer@bank.com"
        /\ viols[1].resolved_at - viols[1].detected_at = 24
        /\ now - viols[1].detected_at = 26
        /\ viols[2].status = "OPEN"

====
